---------------------------- MODULE Spec2Model ----------------------------
(***************************************************************************)
(* Assistive Interaction Controller: profile selection (DisabilitySelector),*)
(* dictation (PromptInput), playback and display customization             *)
(* (ResponseDisplay), and the file picker (FileUpload).                    *)
(*                                                                         *)
(* Strings the code only compares (profile ids, voice names, font          *)
(* families) are TLA+ strings.  Strings the code concatenates or tests for *)
(* a prefix (the prompt, transcripts, voice languages) are sequences of    *)
(* characters.  Slider values are counted in tenths (1.4 is 14).           *)
(***************************************************************************)
EXTENDS Integers, Sequences, FiniteSets, TLC

VARIABLES
    selectedDisabilities,   \* parent state: array of profile ids
    response,               \* parent state: generated response text
    customization,          \* parent state: CustomizationSettings
    prompt,                 \* parent state: PromptText
    selectedFile,           \* parent state: the chosen file (or null)
    speechSupported,        \* platform: window.SpeechRecognition exists
    isListening,            \* PromptInput state
    recognitionRef,         \* PromptInput ref: index of the current recognition, 0 is null
    recognitions,           \* platform: every SpeechRecognition object constructed so far
    micShown,               \* PromptInput: the microphone button was rendered
    dictMounted,            \* PromptInput is mounted
    platformVoices,         \* platform: speechSynthesis.getVoices()
    voicesSubscribed,       \* platform: speechSynthesis.onvoiceschanged is loadVoices
    voices,                 \* ResponseDisplay state
    selectedVoice,          \* ResponseDisplay state: a voice name, NoVoice is null
    rate,                   \* ResponseDisplay state, in tenths
    isSpeaking,             \* ResponseDisplay state
    queue,                  \* platform: the utterance queue of speechSynthesis
    lateCallbacks,          \* platform: cancelled utterances whose error event is still due
    playMounted,            \* ResponseDisplay is mounted
    lastOp,                 \* history: the operation taken last
    initialPrompt,          \* history: the prompt at construction
    committed,              \* history: the final transcripts committed, in delivery order
    userEdited              \* history: the user has typed into the textarea

profileVars == <<selectedDisabilities, response, customization>>
fileVars    == <<selectedFile>>
dictVars    == <<speechSupported, isListening, recognitionRef, recognitions, dictMounted>>
playVars    == <<platformVoices, voicesSubscribed, voices, selectedVoice, rate,
                 isSpeaking, queue, lateCallbacks, playMounted>>
historyVars == <<initialPrompt, committed, userEdited>>
vars == <<selectedDisabilities, response, customization, prompt, selectedFile,
          speechSupported, isListening, recognitionRef, recognitions, micShown,
          dictMounted, platformVoices, voicesSubscribed, voices, selectedVoice, rate,
          isSpeaking, queue, lateCallbacks, playMounted,
          lastOp, initialPrompt, committed, userEdited>>

-----------------------------------------------------------------------------
(* Bounds and input domains *)

MaxSelLen == 3

Standard == "Standard"
Writing  == "Writing & Expression Support"
Vision   == "Vision & Screen-Reader Support"
Reading  == "Reading & Language Support"
Unknown  == "Unknown Profile"

NonStandardIds == {Writing, Vision, Reading, Unknown}
ToggleIds == {Standard} \cup NonStandardIds

Range(s) == {s[i] : i \in 1..Len(s)}

RECURSIVE SeqsUpTo(_, _)
SeqsUpTo(S, n) ==
    IF n = 0 THEN {<<>>}
    ELSE LET shorter == SeqsUpTo(S, n - 1)
         IN  shorter \cup {Append(s, x) : s \in shorter, x \in S}


-----------------------------------------------------------------------------
(* Array helpers of the handlers *)

includes(arr, x) == \E i \in 1..Len(arr) : arr[i] = x

RECURSIVE without(_, _)
without(arr, x) ==
    IF arr = <<>> THEN <<>>
    ELSE IF Head(arr) = x THEN without(Tail(arr), x)
         ELSE <<Head(arr)>> \o without(Tail(arr), x)

-----------------------------------------------------------------------------
(* DisabilitySelector *)

\* Faulty variant: the fallback to Standard on an empty result is missing.
handleCheckboxChangeNoFallback(selected, id) ==
    IF id = Standard THEN <<Standard>>
    ELSE LET currentlySelected == without(selected, Standard)
         IN  IF includes(currentlySelected, id)
             THEN without(currentlySelected, id)
             ELSE Append(currentlySelected, id)

\* Faulty variant: Standard is not filtered out of the current selection.
handleCheckboxChangeKeepStandard(selected, id) ==
    IF id = Standard THEN <<Standard>>
    ELSE LET newSelection == IF includes(selected, id)
                             THEN without(selected, id)
                             ELSE Append(selected, id)
         IN  IF Len(newSelection) = 0 THEN <<Standard>> ELSE newSelection

\* Faulty variant: Standard is toggled like any other id.
handleCheckboxChangeStandardAdded(selected, id) ==
    LET newSelection == IF includes(selected, id)
                        THEN without(selected, id)
                        ELSE Append(without(selected, Standard), id)
    IN  IF Len(newSelection) = 0 THEN <<Standard>> ELSE newSelection

\* Faulty variant: a non-standard id is always added, never removed.
handleCheckboxChangeAlwaysAdd(selected, id) ==
    IF id = Standard THEN <<Standard>>
    ELSE Append(without(selected, Standard), id)

\* The array handed to onSelectionChange.
handleCheckboxChange(selected, id) ==
    LET isStandard == id = Standard
    IN  IF isStandard
        THEN <<Standard>>
        ELSE LET currentlySelected == without(selected, Standard)
                 toggled == IF includes(currentlySelected, id)
                            THEN without(currentlySelected, id)
                            ELSE Append(currentlySelected, id)
             IN  IF Len(toggled) = 0 THEN <<Standard>> ELSE toggled

-----------------------------------------------------------------------------
(* ResponseDisplay: display customization *)

FontSizeMin == 8
FontSizeMax == 20
LineHeightMin == 15
LineHeightMax == 25

SettingValues ==
    [fontSize   |-> {FontSizeMin, 10, 14, FontSizeMax},
     lineHeight |-> {LineHeightMin, LineHeightMax},
     fontFamily |-> {"sans", "serif", "mono"}]
SettingKeys == {"fontSize", "lineHeight", "fontFamily"}

InitialCustomization ==
    [fontSize |-> 10, lineHeight |-> LineHeightMin, fontFamily |-> "sans"]

NoResponse == ""
Responses == {NoResponse, "Plants turn light into sugar."}

\* Faulty variant: the Reading & Language profile is missing from the list.
showCustomizationTwoProfiles ==
    /\ response # NoResponse
    /\ \/ includes(selectedDisabilities, Writing)
       \/ includes(selectedDisabilities, Vision)

showCustomization ==
    /\ response # NoResponse
    /\ \/ includes(selectedDisabilities, Writing)
       \/ includes(selectedDisabilities, Vision)
       \/ includes(selectedDisabilities, Reading)

\* Faulty variant: the new field is merged into fresh defaults, not the current settings.
mergeSettingIntoDefaults(settings, key, value) ==
    [InitialCustomization EXCEPT ![key] = value]

\* { ...customization, [key]: value }
mergeSetting(settings, key, value) == [settings EXCEPT ![key] = value]

\* A render of PromptInput: the microphone button is there when the ref is set.
Rerender == micShown' = (dictMounted /\ recognitionRef # 0)

-----------------------------------------------------------------------------
(* FileUpload *)

NoFile == [name |-> "", type |-> ""]
Files == {[name |-> "book.pdf", type |-> "application/pdf"],
          [name |-> "notes.txt", type |-> "text/plain"]}

\* The value handed to onFileSelect; file is files?.[0], NoFile when nothing was chosen.
handleFileChange(file) ==
    IF file # NoFile /\ file.type = "application/pdf" THEN file ELSE NoFile

-----------------------------------------------------------------------------
(* PromptInput: dictation *)

MaxRecognitions == 3
MaxResults == 2

Space == " "
Transcripts == {<<>>, <<"h">>, <<"w">>}
TypedValues == {<<>>, <<"a">>}

RecognitionIds == 1..MaxRecognitions

NoRecognition ==
    [state |-> "none", closure |-> <<>>, finalDone |-> FALSE]

\* A recognition at rest that the ref no longer holds can never act again.
Collected ==
    [state |-> "collected", closure |-> <<>>, finalDone |-> FALSE]

\* new SpeechRecognition() with the handlers of the effect run that saw promptSeen.
newRecognition(promptSeen) ==
    [state |-> "idle", closure |-> promptSeen, finalDone |-> FALSE]

\* recognition.start(): throws InvalidStateError unless the object is at rest.
startThrows(rec) == rec.state # "idle"
startRecognition(rec) ==
    IF startThrows(rec) THEN rec
    ELSE [rec EXCEPT !.state = "starting", !.finalDone = FALSE]

\* Faulty variant: a session that has not been acknowledged is not stopped.
stopRecognitionAcknowledgedOnly(rec) ==
    IF rec.state = "capturing" THEN [rec EXCEPT !.state = "stopping"] ELSE rec

\* recognition.stop(): ignored unless a session was requested and not yet stopped.
stopRecognition(rec) ==
    CASE rec.state = "starting"  -> [rec EXCEPT !.state = "stoppedEarly"]
      [] rec.state = "capturing" -> [rec EXCEPT !.state = "stopping"]
      [] OTHER -> rec

\* The events a result callback can carry (event.results from event.resultIndex on).
\* continuous = false: the platform returns at most one final result per start.
Results == [isFinal : {TRUE}, transcript : Transcripts]
               \cup {[isFinal |-> FALSE, transcript |-> <<"h">>]}
finalCount(ev) == Cardinality({i \in 1..Len(ev) : ev[i].isFinal})
ResultEvents == {ev \in SeqsUpTo(Results, MaxResults) : Len(ev) >= 1}
deliverable(rec, ev) == finalCount(ev) <= (IF rec.finalDone THEN 0 ELSE 1)

\* The loop of onresult.
RECURSIVE finalTranscript(_)
finalTranscript(ev) ==
    IF ev = <<>> THEN <<>>
    ELSE (IF Head(ev).isFinal THEN Head(ev).transcript ELSE <<>>)
         \o finalTranscript(Tail(ev))

\* Faulty variant: the separator is always inserted.
appendTranscriptAlwaysSpace(promptSeen, transcript) ==
    promptSeen \o <<Space>> \o transcript

\* prompt + (prompt ? ' ' : '') + finalTranscript
appendTranscript(promptSeen, transcript) ==
    promptSeen \o (IF promptSeen # <<>> THEN <<Space>> ELSE <<>>) \o transcript

\* The effect of PromptInput, run again after a render with a changed prompt:
\* the cleanup stops the current recognition, then a new one replaces it.
promptEffect(recs, newPrompt) ==
    [recs EXCEPT ![recognitionRef] =
                     IF @.state = "idle" THEN Collected ELSE stopRecognition(@),
                 ![recognitionRef + 1] = newRecognition(newPrompt)]

\* onPromptChange(value) with the parent's setPrompt, the render that follows and
\* the effect; recs is the platform's recognitions as the caller leaves them.
onPromptChange(value, recs) ==
    IF value = prompt
    THEN /\ recognitions' = recs
         /\ UNCHANGED <<prompt, micShown, recognitionRef>>
    ELSE /\ prompt' = value
         /\ Rerender
         /\ IF dictMounted /\ speechSupported
            THEN /\ recognitionRef < MaxRecognitions
                 /\ recognitions' = promptEffect(recs, value)
                 /\ recognitionRef' = recognitionRef + 1
            ELSE /\ recognitions' = recs
                 /\ UNCHANGED recognitionRef

-----------------------------------------------------------------------------
(* ResponseDisplay: playback *)

MaxQueue == 2
MaxLateCallbacks == 2

RateMin == 5
RateMax == 20
RateInit == 10
Rates == {RateMin, RateInit, RateMax}

NoVoice == ""
DefaultVoice == "platform default"

VoiceAlice == [name |-> "Alice", lang |-> <<"e", "n", "-", "U", "S">>]
VoiceBrian == [name |-> "Brian", lang |-> <<"e", "n", "-", "G", "B">>]
VoiceChloe == [name |-> "Chloe", lang |-> <<"f", "r", "-", "F", "R">>]
VoiceLists == {<<>>, <<VoiceAlice>>, <<VoiceChloe, VoiceBrian, VoiceAlice>>}

startsWith(str, prefix) ==
    /\ Len(str) >= Len(prefix)
    /\ SubSeq(str, 1, Len(prefix)) = prefix

RECURSIVE englishVoices(_)
englishVoices(available) ==
    IF available = <<>> THEN <<>>
    ELSE (IF startsWith(Head(available).lang, <<"e", "n">>)
          THEN <<Head(available)>> ELSE <<>>)
         \o englishVoices(Tail(available))

\* loadVoices: the pair <<voices, selectedVoice>> after a refresh.
loadVoices(available, selected) ==
    LET english == englishVoices(available)
    IN  <<english, IF Len(english) > 0 THEN english[1].name ELSE selected>>

\* voices.find(v => v.name === selectedVoice), the platform default when not found.
resolveVoice(catalog, name) ==
    IF \E i \in 1..Len(catalog) : catalog[i].name = name THEN name ELSE DefaultVoice

newUtterance(text, voice, r) ==
    [text |-> text, voice |-> voice, rate |-> r, speaking |-> FALSE]

\* Faulty variant: the new utterance is enqueued without cancelling the queue first.
speakQueueNoCancel(q, utterance) == Append(q, utterance)

\* speechSynthesis.cancel() followed by speechSynthesis.speak(utterance).
speakQueue(q, utterance) == <<utterance>>

\* Faulty variant: the Stop button is never disabled.
stopDisabledNever == FALSE

\* disabled={!isSpeaking} of the Stop button.
stopDisabled == ~isSpeaking

\* disabled={isSpeaking} of the Speak button.
speakDisabled == isSpeaking

-----------------------------------------------------------------------------
(* The state after the first render and the mount effects *)

InitParent ==
    /\ selectedDisabilities = <<Standard>>
    /\ response = NoResponse
    /\ customization = InitialCustomization
    /\ prompt \in TypedValues
    /\ selectedFile = NoFile

InitPromptInput ==
    /\ speechSupported \in BOOLEAN
    /\ isListening = FALSE
    /\ recognitionRef = (IF speechSupported THEN 1 ELSE 0)
    /\ recognitions =
           [r \in RecognitionIds |->
               IF r = 1 /\ speechSupported THEN newRecognition(prompt)
               ELSE NoRecognition]
    /\ micShown = FALSE
    /\ dictMounted = TRUE

InitResponseDisplay ==
    /\ platformVoices \in VoiceLists
    /\ voicesSubscribed = TRUE
    /\ voices = loadVoices(platformVoices, NoVoice)[1]
    /\ selectedVoice = loadVoices(platformVoices, NoVoice)[2]
    /\ rate = RateInit
    /\ isSpeaking = FALSE
    /\ queue = <<>>
    /\ lateCallbacks = 0
    /\ playMounted = TRUE

InitHistory ==
    /\ lastOp = "init"
    /\ initialPrompt = prompt
    /\ committed = <<>>
    /\ userEdited = FALSE

Init == InitParent /\ InitPromptInput /\ InitResponseDisplay /\ InitHistory

-----------------------------------------------------------------------------
(* Profile selection, response and customization *)

Toggle(id) ==
    /\ selectedDisabilities' = handleCheckboxChange(selectedDisabilities, id)
    /\ Rerender
    /\ lastOp' = (IF id = Standard THEN "toggle Standard" ELSE "toggle")
    /\ UNCHANGED <<response, customization, prompt, fileVars, dictVars, playVars,
                   historyVars>>

ResponseArrives(text) ==
    /\ text # response
    /\ response' = text
    /\ Rerender
    /\ lastOp' = "response"
    /\ UNCHANGED <<selectedDisabilities, customization, prompt, fileVars, dictVars,
                   playVars, historyVars>>

handleSettingChange(key, value) ==
    /\ playMounted
    /\ showCustomization
    /\ value # customization[key]
    /\ customization' = mergeSetting(customization, key, value)
    /\ Rerender
    /\ lastOp' = "setting"
    /\ UNCHANGED <<selectedDisabilities, response, prompt, fileVars, dictVars,
                   playVars, historyVars>>

FileChange(file) ==
    /\ selectedFile' = handleFileChange(file)
    /\ IF selectedFile' # selectedFile THEN Rerender ELSE UNCHANGED micShown
    /\ lastOp' = "file"
    /\ UNCHANGED <<profileVars, prompt, dictVars, playVars, historyVars>>

-----------------------------------------------------------------------------
(* Dictation *)

\* The textarea's onChange.
TypePrompt(value) ==
    /\ dictMounted
    /\ value # prompt
    /\ onPromptChange(value, recognitions)
    /\ lastOp' = "type"
    /\ userEdited' = TRUE
    /\ committed' = <<>>
    /\ UNCHANGED <<profileVars, fileVars, speechSupported, isListening, dictMounted,
                   playVars, initialPrompt>>

\* A click on the microphone button.
toggleListen ==
    /\ dictMounted
    /\ micShown
    /\ recognitions' =
           [recognitions EXCEPT ![recognitionRef] =
               IF isListening THEN stopRecognition(@) ELSE startRecognition(@)]
    /\ lastOp' = "toggleListen"
    /\ UNCHANGED <<profileVars, prompt, fileVars, speechSupported, isListening,
                   recognitionRef, micShown, dictMounted, playVars, historyVars>>

\* setIsListening(value) from a callback, and the render that follows a change.
setIsListening(value) ==
    IF dictMounted /\ isListening # value
    THEN isListening' = value /\ Rerender
    ELSE UNCHANGED <<isListening, micShown>>

\* recognition.onstart
RecognitionStarted(r) ==
    /\ recognitions[r].state \in {"starting", "stoppedEarly"}
    /\ recognitions' =
           [recognitions EXCEPT ![r].state =
               IF @ = "starting" THEN "capturing" ELSE "stopping"]
    /\ setIsListening(TRUE)
    /\ lastOp' = "onstart"
    /\ UNCHANGED <<profileVars, prompt, fileVars, speechSupported, recognitionRef,
                   dictMounted, playVars, historyVars>>

\* recognition.onresult
RecognitionResult(r, ev) ==
    /\ recognitions[r].state \in {"capturing", "stopping"}
    /\ deliverable(recognitions[r], ev)
    /\ LET rec == recognitions[r]
           transcript == finalTranscript(ev)
           recs == [recognitions EXCEPT
                       ![r].finalDone = rec.finalDone \/ finalCount(ev) > 0]
       IN  IF transcript # <<>>
           THEN /\ onPromptChange(appendTranscript(rec.closure, transcript), recs)
                /\ committed' = (IF userEdited THEN <<>>
                                 ELSE Append(committed, transcript))
                /\ lastOp' = "onresult"
           ELSE /\ recognitions' = recs
                /\ lastOp' = "onresult"
                /\ UNCHANGED <<prompt, micShown, recognitionRef, committed>>
    /\ UNCHANGED <<profileVars, fileVars, speechSupported, isListening, dictMounted,
                   playVars, initialPrompt, userEdited>>

\* Faulty variant: the error is logged and the flag is left as it is.
recognitionOnerrorLogOnly == UNCHANGED <<isListening, micShown>>

\* The body of recognition.onerror.
recognitionOnerror == setIsListening(FALSE)

\* recognition.onerror; the platform's end event is still to come.
RecognitionError(r) ==
    /\ recognitions[r].state \in {"starting", "stoppedEarly", "capturing", "stopping"}
    /\ recognitions' = [recognitions EXCEPT ![r].state = "ending"]
    /\ recognitionOnerror
    /\ lastOp' = "onerror"
    /\ UNCHANGED <<profileVars, prompt, fileVars, speechSupported, recognitionRef,
                   dictMounted, playVars, historyVars>>

\* recognition.onend
RecognitionEnded(r) ==
    /\ recognitions[r].state \in {"stoppedEarly", "capturing", "stopping", "ending"}
    /\ recognitions' =
           [recognitions EXCEPT ![r] =
               IF r = recognitionRef
               THEN [@ EXCEPT !.state = "idle", !.finalDone = FALSE]
               ELSE Collected]
    /\ setIsListening(FALSE)
    /\ lastOp' = "onend"
    /\ UNCHANGED <<profileVars, prompt, fileVars, speechSupported, recognitionRef,
                   dictMounted, playVars, historyVars>>

\* The cleanup of PromptInput's effect at unmount.
UnmountPromptInput ==
    /\ dictMounted
    /\ dictMounted' = FALSE
    /\ micShown' = FALSE
    /\ recognitions' =
           IF recognitionRef # 0
           THEN [recognitions EXCEPT ![recognitionRef] = stopRecognition(@)]
           ELSE recognitions
    /\ lastOp' = "unmountPromptInput"
    /\ UNCHANGED <<profileVars, prompt, fileVars, speechSupported, isListening,
                   recognitionRef, playVars, historyVars>>

-----------------------------------------------------------------------------
(* Playback *)

ttsControlsShown == playMounted /\ response # NoResponse

\* setIsSpeaking(value) from a callback; nothing is left to set after unmount.
setIsSpeaking(value) ==
    IF playMounted THEN isSpeaking' = value ELSE UNCHANGED isSpeaking

\* speechSynthesis.onvoiceschanged
VoicesChanged(available) ==
    /\ available # platformVoices
    /\ platformVoices' = available
    /\ IF voicesSubscribed
       THEN /\ voices' = loadVoices(available, selectedVoice)[1]
            /\ selectedVoice' = loadVoices(available, selectedVoice)[2]
       ELSE UNCHANGED <<voices, selectedVoice>>
    /\ lastOp' = "voiceschanged"
    /\ UNCHANGED <<profileVars, prompt, fileVars, dictVars, micShown, voicesSubscribed,
                   rate, isSpeaking, queue, lateCallbacks, playMounted, historyVars>>

\* The voice select's onChange.
SelectVoice(name) ==
    /\ ttsControlsShown
    /\ \E i \in 1..Len(voices) : voices[i].name = name
    /\ name # selectedVoice
    /\ selectedVoice' = name
    /\ lastOp' = "selectVoice"
    /\ UNCHANGED <<profileVars, prompt, fileVars, dictVars, micShown, platformVoices,
                   voicesSubscribed, voices, rate, isSpeaking, queue, lateCallbacks,
                   playMounted, historyVars>>

\* The rate slider's onChange.
SetRate(value) ==
    /\ ttsControlsShown
    /\ value # rate
    /\ rate' = value
    /\ lastOp' = "setRate"
    /\ UNCHANGED <<profileVars, prompt, fileVars, dictVars, micShown, platformVoices,
                   voicesSubscribed, voices, selectedVoice, isSpeaking, queue,
                   lateCallbacks, playMounted, historyVars>>

\* Faulty variant: only the response is tested.
speakReturnsEarlyResponseOnly == response = NoResponse

\* if (!response || !selectedVoice) return;
speakReturnsEarly == response = NoResponse \/ selectedVoice = NoVoice

\* A click on the Speak button; a disabled button's handler does not run.
handleSpeak ==
    /\ ttsControlsShown
    /\ lastOp' = "speak"
    /\ IF speakDisabled \/ speakReturnsEarly
       THEN UNCHANGED <<queue, lateCallbacks>>
       ELSE /\ lateCallbacks + Len(queue) <= MaxLateCallbacks
            /\ lateCallbacks' = lateCallbacks + Len(queue)
            /\ queue' = speakQueue(queue,
                            newUtterance(response, resolveVoice(voices, selectedVoice),
                                         rate))
            /\ Len(queue') <= MaxQueue
    /\ UNCHANGED <<profileVars, prompt, fileVars, dictVars, micShown, platformVoices,
                   voicesSubscribed, voices, selectedVoice, rate, isSpeaking,
                   playMounted, historyVars>>

\* A click on the Stop button; a disabled button's handler does not run.
handleStop ==
    /\ ttsControlsShown
    /\ lastOp' = "stop"
    /\ IF stopDisabled
       THEN UNCHANGED <<queue, lateCallbacks, isSpeaking>>
       ELSE /\ lateCallbacks + Len(queue) <= MaxLateCallbacks
            /\ lateCallbacks' = lateCallbacks + Len(queue)
            /\ queue' = <<>>
            /\ isSpeaking' = FALSE
    /\ UNCHANGED <<profileVars, prompt, fileVars, dictVars, micShown, platformVoices,
                   voicesSubscribed, voices, selectedVoice, rate, playMounted,
                   historyVars>>

\* utterance.onstart: the platform begins the utterance at the head of the queue.
UtteranceStarted ==
    /\ queue # <<>>
    /\ ~queue[1].speaking
    /\ queue' = [queue EXCEPT ![1].speaking = TRUE]
    /\ setIsSpeaking(TRUE)
    /\ lastOp' = "utterance.onstart"
    /\ UNCHANGED <<profileVars, prompt, fileVars, dictVars, micShown, platformVoices,
                   voicesSubscribed, voices, selectedVoice, rate, lateCallbacks,
                   playMounted, historyVars>>

\* Faulty variant: the end of the utterance leaves the flag as it is.
utteranceOnendNoReset == UNCHANGED isSpeaking

\* The body of utterance.onend.
utteranceOnend == setIsSpeaking(FALSE)

\* utterance.onend: the utterance being spoken completes.
UtteranceEnded ==
    /\ queue # <<>>
    /\ queue[1].speaking
    /\ queue' = Tail(queue)
    /\ utteranceOnend
    /\ lastOp' = "utterance.onend"
    /\ UNCHANGED <<profileVars, prompt, fileVars, dictVars, micShown, platformVoices,
                   voicesSubscribed, voices, selectedVoice, rate, lateCallbacks,
                   playMounted, historyVars>>

\* utterance.onerror: the platform fails the utterance at the head of the queue.
UtteranceError ==
    /\ queue # <<>>
    /\ queue' = Tail(queue)
    /\ setIsSpeaking(FALSE)
    /\ lastOp' = "utterance.onerror"
    /\ UNCHANGED <<profileVars, prompt, fileVars, dictVars, micShown, platformVoices,
                   voicesSubscribed, voices, selectedVoice, rate, lateCallbacks,
                   playMounted, historyVars>>

\* utterance.onerror of an utterance that cancel() removed from the queue.
CancelledCallback ==
    /\ lateCallbacks > 0
    /\ lateCallbacks' = lateCallbacks - 1
    /\ setIsSpeaking(FALSE)
    /\ lastOp' = "cancelled.onerror"
    /\ UNCHANGED <<profileVars, prompt, fileVars, dictVars, micShown, platformVoices,
                   voicesSubscribed, voices, selectedVoice, rate, queue, playMounted,
                   historyVars>>

\* Faulty variant: the cleanup leaves the utterances on speechSynthesis.
cleanupQueueNoCancel(q) == q

\* window.speechSynthesis.cancel() in the cleanup of the effect.
cleanupQueue(q) == <<>>

\* The cleanup of ResponseDisplay's effect at unmount.
UnmountResponseDisplay ==
    /\ playMounted
    /\ playMounted' = FALSE
    /\ voicesSubscribed' = FALSE
    /\ lateCallbacks + Len(queue) <= MaxLateCallbacks
    /\ lateCallbacks' = lateCallbacks + Len(queue)
    /\ queue' = cleanupQueue(queue)
    /\ lastOp' = "unmountResponseDisplay"
    /\ UNCHANGED <<profileVars, prompt, fileVars, dictVars, micShown, platformVoices,
                   voices, selectedVoice, rate, isSpeaking, historyVars>>

-----------------------------------------------------------------------------
(* Specifications *)

NextProfile ==
    \/ \E id \in ToggleIds : Toggle(id)
    \/ \E text \in Responses : ResponseArrives(text)
    \/ \E key \in SettingKeys : \E value \in SettingValues[key] :
           handleSettingChange(key, value)

NextDictation ==
    \/ \E value \in TypedValues : TypePrompt(value)
    \/ \E file \in Files \cup {NoFile} : FileChange(file)
    \/ toggleListen
    \/ \E r \in RecognitionIds : RecognitionStarted(r)
    \/ \E r \in RecognitionIds : \E ev \in ResultEvents :
           RecognitionResult(r, ev)
    \/ \E r \in RecognitionIds : RecognitionError(r)
    \/ \E r \in RecognitionIds : RecognitionEnded(r)
    \/ UnmountPromptInput

\* Dictation in the runs where the user never edits the textarea.
NextDictationNoEdit ==
    \/ \E file \in Files \cup {NoFile} : FileChange(file)
    \/ toggleListen
    \/ \E r \in RecognitionIds : RecognitionStarted(r)
    \/ \E r \in RecognitionIds : \E ev \in ResultEvents :
           RecognitionResult(r, ev)
    \/ \E r \in RecognitionIds : RecognitionError(r)
    \/ \E r \in RecognitionIds : RecognitionEnded(r)
    \/ UnmountPromptInput

NextPlayback ==
    \/ \E text \in Responses : ResponseArrives(text)
    \/ \E available \in VoiceLists : VoicesChanged(available)
    \/ \E name \in {VoiceAlice.name, VoiceBrian.name} : SelectVoice(name)
    \/ \E value \in Rates : SetRate(value)
    \/ handleSpeak
    \/ handleStop
    \/ UtteranceStarted
    \/ UtteranceEnded
    \/ UtteranceError
    \/ CancelledCallback
    \/ UnmountResponseDisplay

\* The selector alone, from any array of ids.
InitAnySelection ==
    /\ selectedDisabilities \in SeqsUpTo(ToggleIds, MaxSelLen)
    /\ response = NoResponse
    /\ customization = InitialCustomization
    /\ prompt = <<>>
    /\ selectedFile = NoFile
    /\ InitPromptInput /\ speechSupported
    /\ InitResponseDisplay /\ platformVoices = <<>>
    /\ InitHistory

NextToggle == \E id \in ToggleIds : Toggle(id)

Next == NextProfile \/ NextDictation \/ NextPlayback

\* Each component with the platform of the others held fixed.
InitProfile   == Init /\ speechSupported /\ prompt = <<>> /\ platformVoices = <<>>
InitDictation == Init /\ platformVoices = <<>>
InitPlayback  == Init /\ speechSupported /\ prompt = <<>>

SpecProfile   == InitProfile /\ [][NextProfile]_vars
SpecDictation == InitDictation /\ [][NextDictation]_vars
SpecPlayback  == InitPlayback /\ [][NextPlayback]_vars
SpecDictationNoEdit == InitDictation /\ [][NextDictationNoEdit]_vars

\* Playback on a platform that delivers its callbacks: a queued utterance starts,
\* a spoken one ends, and a cancelled one reports its error.
SpecPlaybackFair ==
    /\ SpecPlayback
    /\ WF_vars(UtteranceStarted)
    /\ WF_vars(UtteranceEnded)
    /\ WF_vars(CancelledCallback)

\* The two media sessions and their error paths side by side, with one platform
\* voice.
InitMedia ==
    Init /\ speechSupported /\ prompt = <<>> /\ platformVoices = <<VoiceAlice>>

NextMedia ==
    \/ \E text \in Responses : ResponseArrives(text)
    \/ toggleListen
    \/ \E r \in RecognitionIds : RecognitionStarted(r)
    \/ \E r \in RecognitionIds : \E ev \in ResultEvents :
           RecognitionResult(r, ev)
    \/ \E r \in RecognitionIds : RecognitionError(r)
    \/ \E r \in RecognitionIds : RecognitionEnded(r)
    \/ handleSpeak
    \/ UtteranceStarted
    \/ UtteranceError
    \/ CancelledCallback

SpecMedia == InitMedia /\ [][NextMedia]_vars

\* The sessions of dictation up to the unmount of PromptInput, with the prompt
\* changed from the textarea.
NextTeardown ==
    \/ \E value \in TypedValues : TypePrompt(value)
    \/ toggleListen
    \/ \E r \in RecognitionIds : RecognitionStarted(r)
    \/ \E r \in RecognitionIds : RecognitionError(r)
    \/ \E r \in RecognitionIds : RecognitionEnded(r)
    \/ UnmountPromptInput

SpecTeardown == InitDictation /\ [][NextTeardown]_vars
SpecToggle    == InitAnySelection /\ [][NextToggle]_vars
Spec          == Init /\ [][Next]_vars

-----------------------------------------------------------------------------
(* Properties of profile selection *)

\* C1: starting from <<Standard>>, after any sequence of toggles with any ids
\* (known or not) the selection is never empty.
C1_SelectionNeverEmpty == Len(selectedDisabilities) > 0

\* C1 witness: the last non-standard id was toggled off and Standard came back.
C1_Witness ==
    /\ lastOp = "toggle"
    /\ selectedDisabilities = <<Standard>>

\* C2: in every selection reachable from <<Standard>>, Standard excludes every
\* other id.
C2_StandardExclusive ==
    Standard \in Range(selectedDisabilities) =>
        Range(selectedDisabilities) = {Standard}

\* C2 witness: Standard was chosen and is the whole selection.
C2_Witness ==
    /\ lastOp = "toggle Standard"
    /\ includes(selectedDisabilities, Standard)

\* C3: toggle("Standard") yields exactly <<Standard>> from any selection, also
\* from <<Standard>> itself and from one holding several other ids.
C3_ToggleStandardResets ==
    [][Toggle(Standard) => selectedDisabilities' = <<Standard>>]_vars

\* C3 witness: Standard was toggled on a selection taken from all arrays of ids.
C3_Witness ==
    /\ lastOp = "toggle Standard"
    /\ selectedDisabilities = <<Standard>>
    /\ ~showCustomization

\* The reference result of the contract, on sets of ids.
referenceToggle(current, id) ==
    LET base == current \ {Standard}
        toggled == IF id \in base THEN base \ {id} ELSE base \cup {id}
    IN  IF toggled = {} THEN {Standard} ELSE toggled

\* C4: for every non-standard id and every selection, toggle(id) is the reference
\* result: drop Standard, remove id if present else add it, Standard if nothing
\* is left.
C4_ToggleMatchesReference ==
    [][\A id \in NonStandardIds :
          Toggle(id) =>
              Range(selectedDisabilities') =
                  referenceToggle(Range(selectedDisabilities), id)]_vars

\* C4 witness: a non-standard id was toggled and is now the only one selected.
C4_Witness ==
    /\ lastOp = "toggle"
    /\ selectedDisabilities = <<Vision>>

\* The three profiles that open the customization controls.
CustomizationProfiles == {Writing, Vision, Reading}

\* C9: the customization controls are visible exactly when the response is not
\* empty and the selection holds one of the three customization profiles; with
\* <<Standard>> they are hidden even when a response exists.
C9_CustomizationVisibility ==
    /\ showCustomization <=>
           /\ response # NoResponse
           /\ Range(selectedDisabilities) \cap CustomizationProfiles # {}
    /\ (response # NoResponse /\ selectedDisabilities = <<Standard>>)
           => ~showCustomization

\* C9 witness: a response exists and the Reading & Language profile is selected.
C9_Witness ==
    /\ response # NoResponse
    /\ Range(selectedDisabilities) = {Reading}
    /\ showCustomization

\* C10: an update of one customization field sets that field, keeps the other
\* two, and leaves the selection, the prompt and the playback state alone.
C10_SettingChangeFrame ==
    [][\A key \in SettingKeys : \A value \in SettingValues[key] :
          handleSettingChange(key, value) =>
              /\ customization'[key] = value
              /\ \A other \in SettingKeys \ {key} :
                     customization'[other] = customization[other]
              /\ UNCHANGED <<selectedDisabilities, prompt, isSpeaking, queue>>]_vars

\* C10 witness: font size 1.4 and the serif family were set one after the other.
C10_Witness ==
    /\ lastOp = "setting"
    /\ customization.fontSize = 14
    /\ customization.fontFamily = "serif"
    /\ customization.lineHeight = InitialCustomization.lineHeight

-----------------------------------------------------------------------------
(* Properties of playback *)

\* C7: under every interleaving of speak and stop clicks with the synthesis
\* callbacks, at most one utterance is queued or speaking on speechSynthesis.
C7_AtMostOneUtterance == Len(queue) <= 1

\* C7 witness: Speak was clicked again before the first utterance had started;
\* the first one was cancelled and only the second is queued.
C7_Witness ==
    /\ lastOp = "speak"
    /\ Len(queue) = 1
    /\ ~queue[1].speaking
    /\ ~isSpeaking
    /\ lateCallbacks = MaxLateCallbacks

\* C8: a stop while the playback state is Idle changes neither the playback state
\* nor the utterance queue, the voice selection, the rate or any shared state.
C8_StopFromIdleNoOp ==
    [][(handleStop /\ ~isSpeaking) =>
          UNCHANGED <<isSpeaking, queue, lateCallbacks, voices, selectedVoice, rate,
                      platformVoices, voicesSubscribed, profileVars, prompt,
                      selectedFile>>]_vars

\* C8 witness: Stop was clicked while Idle with an utterance still waiting to
\* start, and the utterance is still queued.
C8_Witness ==
    /\ lastOp = "stop"
    /\ ~isSpeaking
    /\ queue # <<>>

-----------------------------------------------------------------------------
(* Properties of dictation *)

RECURSIVE joinWithSpaces(_)
joinWithSpaces(parts) ==
    IF parts = <<>> THEN <<>>
    ELSE IF Len(parts) = 1 THEN parts[1]
    ELSE parts[1] \o <<Space>> \o joinWithSpaces(Tail(parts))

\* C5: as long as the user does not edit the prompt, the prompt after the k-th
\* commit is the initial prompt followed by the k final transcripts in delivery
\* order, joined by single spaces, with no leading space on an empty prompt.
C5_CommitsInDeliveryOrder ==
    ~userEdited =>
        prompt = joinWithSpaces(
                     (IF initialPrompt = <<>> THEN <<>> ELSE <<initialPrompt>>)
                     \o committed)

\* C5 witness: "h" then "w" were committed to an empty prompt.
C5_Witness ==
    /\ ~userEdited
    /\ initialPrompt = <<>>
    /\ committed = <<<<"h">>, <<"w">>>>
    /\ prompt = <<"h", Space, "w">>

\* C6: a change of the prompt while Listening neither stops nor replaces the
\* recognition in flight: one resource per controller lifetime.
C6_ResourceConstructedOnce ==
    [][(isListening /\ prompt' # prompt) =>
          /\ recognitionRef' = recognitionRef
          /\ recognitions'[recognitionRef].state =
                 recognitions[recognitionRef].state]_vars

-----------------------------------------------------------------------------
(* Properties of error handling *)

\* C11: every recognition error and every synthesis error leaves the owning
\* (mounted) component Idle, isListening false respectively isSpeaking false, and
\* leaves the prompt, the selection and the customization settings unchanged.
C11_ErrorsReturnToIdle ==
    [][/\ \A r \in RecognitionIds :
            RecognitionError(r) =>
                /\ dictMounted => ~isListening'
                /\ UNCHANGED <<prompt, selectedDisabilities, customization>>
       /\ (UtteranceError \/ CancelledCallback) =>
                /\ playMounted => ~isSpeaking'
                /\ UNCHANGED <<prompt, selectedDisabilities, customization>>]_vars

\* C11 witness: a synthesis error arrived while a recognition that had reported an
\* error awaits its end event; both flags are down and the prompt is not empty.
C11_Witness ==
    /\ lastOp = "utterance.onerror"
    /\ \E r \in RecognitionIds : recognitions[r].state = "ending"
    /\ ~isListening
    /\ ~isSpeaking
    /\ prompt # <<>>

\* C12: speak with an empty response or with no voice selected does nothing: no
\* utterance is enqueued, and the playback state and the queue stay as they are.
C12_SpeakWithoutTextOrVoiceNoOp ==
    [][(handleSpeak /\ (response = NoResponse \/ selectedVoice = NoVoice)) =>
          UNCHANGED <<queue, lateCallbacks, isSpeaking, voices, selectedVoice, rate>>]_vars

\* C12 witness: Speak was clicked with a response on display and no voice selected.
C12_Witness ==
    /\ lastOp = "speak"
    /\ response # NoResponse
    /\ selectedVoice = NoVoice
    /\ queue = <<>>

\* C13: a refresh of the voice catalog sets the catalog to the English voices of
\* the platform list, selects the first of them only when no voice is selected,
\* and never replaces a voice that is already selected.
C13_RefreshKeepsSelectedVoice ==
    [][\A available \in VoiceLists :
          (VoicesChanged(available) /\ voicesSubscribed) =>
              /\ voices' = englishVoices(available)
              /\ selectedVoice # NoVoice => selectedVoice' = selectedVoice
              /\ (selectedVoice = NoVoice /\ Len(englishVoices(available)) > 0) =>
                     selectedVoice' = englishVoices(available)[1].name]_vars

-----------------------------------------------------------------------------
(* Properties of teardown *)

\* C14: once PromptInput is unmounted, every recognition it created on which a
\* session was started, acknowledged by onstart or not, has been stopped: none is
\* left starting or capturing.
C14_TeardownStopsCapture ==
    ~dictMounted =>
        \A r \in RecognitionIds :
            recognitions[r].state \notin {"starting", "capturing"}

\* C14 witness: at unmount the current recognition was capturing and an earlier
\* one was still waiting for its onstart; both are stopped.
C14_Witness ==
    /\ lastOp = "unmountPromptInput"
    /\ recognitionRef # 0
    /\ recognitions[recognitionRef].state = "stopping"
    /\ \E r \in RecognitionIds : recognitions[r].state = "stoppedEarly"

\* C15: the unmount of ResponseDisplay empties the utterance queue and detaches
\* the voiceschanged handler; from then on no utterance is queued or speaking and
\* no voiceschanged event, utterance callback or late callback of a cancelled
\* utterance changes the voices, the selected voice, the rate or isSpeaking.
C15_TeardownCancelsAndDetaches ==
    [][/\ ~playMounted' => (queue' = <<>> /\ ~voicesSubscribed')
       /\ ~playMounted =>
              UNCHANGED <<voices, selectedVoice, rate, isSpeaking, queue>>]_vars

\* C15 witness: ResponseDisplay was unmounted while speaking; afterwards the
\* platform's voice list changed and the error callback of the cancelled
\* utterance arrived, and the component's state is as the unmount left it.
C15_Witness ==
    /\ ~playMounted
    /\ lastOp = "cancelled.onerror"
    /\ isSpeaking
    /\ queue = <<>>
    /\ voices # englishVoices(platformVoices)

-----------------------------------------------------------------------------
(* Properties of the sessions under interleaving *)

\* C16: under every interleaving of textarea edits and final results, a commit
\* appends the final transcript to the prompt as it is when the result arrives:
\* the prompt after the commit is that prompt, a space if it is not empty, and
\* the transcript.
C16_CommitAppendsToCurrentPrompt ==
    [][\A r \in RecognitionIds : \A ev \in ResultEvents :
          (RecognitionResult(r, ev) /\ finalTranscript(ev) # <<>>) =>
              prompt' = appendTranscript(prompt, finalTranscript(ev))]_vars

\* C17: a click on the microphone calls start() only on a recognition at rest,
\* never on one with a session requested or in progress, and calls stop() only
\* on a recognition that is capturing.
C17_StartOnlyWhenIdle ==
    [][toggleListen =>
          IF isListening
          THEN recognitions[recognitionRef].state = "capturing"
          ELSE ~startThrows(recognitions[recognitionRef])]_vars

\* C18: on a platform that delivers its callbacks, isSpeaking true is always
\* followed by isSpeaking false as long as ResponseDisplay is mounted, and a
\* click on Stop while speaking sets isSpeaking false in the same step.
C18_PlaybackConvergesToIdle ==
    /\ isSpeaking ~> (~isSpeaking \/ ~playMounted)
    /\ [][(handleStop /\ isSpeaking) => ~isSpeaking']_vars

\* C18 witness: Stop was clicked while speaking; the utterance is cancelled, its
\* error callback is still to come and isSpeaking is already false.
C18_Witness ==
    /\ lastOp = "stop"
    /\ playMounted
    /\ ~isSpeaking
    /\ queue = <<>>
    /\ lateCallbacks > 0

\* C19: while ResponseDisplay is mounted and the utterance on speechSynthesis has
\* started and has not ended, failed or been cancelled, isSpeaking is true; the
\* late callback of an utterance that an earlier cancel() removed does not set it
\* false in the meantime.
C19_SpeakingTracksActiveUtterance ==
    (playMounted /\ queue # <<>> /\ queue[1].speaking) => isSpeaking

\* C20: isListening follows the recognition that recognitionRef holds: while
\* PromptInput is mounted it is true exactly when that recognition has a session
\* acknowledged by onstart that has not ended or failed, and the start, error and
\* end callbacks of a recognition that was replaced leave it as it is.
C20_ListeningTracksCurrentRecognition ==
    /\ [](dictMounted /\ recognitionRef # 0 =>
             (isListening <=>
                  recognitions[recognitionRef].state \in {"capturing", "stopping"}))
    /\ [][\A r \in RecognitionIds :
             (/\ r # recognitionRef
              /\ RecognitionStarted(r) \/ RecognitionError(r) \/ RecognitionEnded(r))
                 => isListening' = isListening]_vars

=============================================================================
